---------------------------- MODULE Spec2Model ----------------------------
(***************************************************************************)
(* Model of the opencode-sentry plugin (src/index.ts).                    *)
(*                                                                         *)
(* createSentryPlugin parses process.env.TRACEPARENT, initialises Sentry,  *)
(* wraps the OpenTelemetry context manager's active() so that the imported *)
(* remote parent is the default context, registers the spanStart listener  *)
(* and returns the plugin whose hooks map host events to Sentry calls.     *)
(*                                                                         *)
(* Strings that the code inspects character by character (TRACEPARENT)     *)
(* are sequences of one-character strings; strings the code only passes on *)
(* are TLA+ strings.                                                       *)
(***************************************************************************)
EXTENDS Integers, Sequences, FiniteSets, TLC

VARIABLES
    traceparent,        \* process.env.TRACEPARENT: [set, val]
    contextManager,     \* shape of the manager the tracing runtime exposes
    scopes,             \* the manager's stack of entered contexts (context.with)
    activeWrappers,     \* root contexts captured by the successive replacements of contextManager.active
    callLog,            \* one record per createSentryPlugin invocation (its locals)
    status,             \* "running", or "crashed" once createSentryPlugin threw
    sentryInits,        \* number of Sentry.init calls
    spanStartListeners, \* number of client.on('spanStart') registrations
    plugins,            \* number of Plugin functions returned by createSentryPlugin
    hooksLoaded,        \* the host invoked a returned Plugin and holds its hooks
    eventLog,           \* host events delivered to the hooks, in order
    sdkLog,             \* Sentry calls made by the hooks, in order
    pc,                 \* position of the event hook: "ready" or "awaiting" (inside await Sentry.flush)
    elapsed             \* milliseconds since the pending flush was requested

vars == << traceparent, contextManager, scopes, activeWrappers, callLog, status,
           sentryInits, spanStartListeners, plugins, hooksLoaded,
           eventLog, sdkLog, pc, elapsed >>

ctxVars == << scopes, activeWrappers >>
createVars == << callLog, status, sentryInits, spanStartListeners, plugins >>
hookVars == << eventLog, sdkLog, pc, elapsed >>

----------------------------------------------------------------------------
(* Bounds of the model *)

MaxLen == 7
MaxCalls == 2
MaxDepth == 2
MaxEvents == 2

(* Program constants *)

SegmentCount == 4
FLUSH_TIMEOUT == 2000
SAMPLED == 1
NONE == 0

----------------------------------------------------------------------------
(* Strings *)

Hyphen == "-"
Alphabet == {Hyphen, "0", "1"}

Strings(n) == UNION { [1..k -> Alphabet] : k \in 0..n }

\* JS String.prototype.split with a one-character separator: always at least
\* one segment, empty segments kept.
RECURSIVE SplitFrom(_, _, _, _)
SplitFrom(s, sep, i, cur) ==
    IF i > Len(s) THEN << cur >>
    ELSE IF s[i] = sep THEN << cur >> \o SplitFrom(s, sep, i + 1, << >>)
    ELSE SplitFrom(s, sep, i + 1, Append(cur, s[i]))

Split(s, sep) == SplitFrom(s, sep, 1, << >>)

\* An optional string local (string | undefined)
Undefined == [def |-> FALSE, val |-> << >>]
Defined(s) == [def |-> TRUE, val |-> s]

\* JS truthiness of a string | undefined value: undefined and "" are falsy
TruthyStr(o) == o.def /\ o.val # << >>

Flags01 == << "0", "1" >>

\* Mutation: the segment count tested with >= instead of ===
ParseTraceparentAtLeastFour(tp) ==
    LET none == [parentTraceId |-> Undefined, parentSpanId |-> Undefined, sampled |-> TRUE]
    IN  IF ~TruthyStr(tp) THEN none
        ELSE LET parts == Split(tp.val, Hyphen)
             IN  IF Len(parts) >= SegmentCount
                 THEN [parentTraceId |-> Defined(parts[2]),
                       parentSpanId |-> Defined(parts[3]),
                       sampled |-> (parts[4] = Flags01)]
                 ELSE none

\* The TRACEPARENT parse: the locals parentTraceId, parentSpanId, sampled
ParseTraceparent(tp) ==
    LET none == [parentTraceId |-> Undefined, parentSpanId |-> Undefined, sampled |-> TRUE]
    IN  IF ~TruthyStr(tp) THEN none
        ELSE LET parts == Split(tp.val, Hyphen)
             IN  IF Len(parts) = SegmentCount
                 THEN [parentTraceId |-> Defined(parts[2]),
                       parentSpanId |-> Defined(parts[3]),
                       sampled |-> (parts[4] = Flags01)]
                 ELSE none

----------------------------------------------------------------------------
(* OpenTelemetry contexts *)

NoSpan == [present |-> FALSE, traceId |-> << >>, spanId |-> << >>,
           traceFlags |-> NONE, isRemote |-> FALSE]

ROOT_CONTEXT == [span |-> NoSpan, baggage |-> ""]

\* Mutation: traceFlags set to SAMPLED whatever the flags segment
ParentContextAlwaysSampled(p) ==
    [present |-> TRUE,
     traceId |-> p.parentTraceId.val,
     spanId |-> p.parentSpanId.val,
     traceFlags |-> SAMPLED,
     isRemote |-> TRUE]

\* otel.SpanContext literal built from the parsed header
ParentContext(p) ==
    [present |-> TRUE,
     traceId |-> p.parentTraceId.val,
     spanId |-> p.parentSpanId.val,
     traceFlags |-> IF p.sampled THEN SAMPLED ELSE NONE,
     isRemote |-> TRUE]

\* otel.trace.setSpanContext(context, spanContext): the context with a
\* non-recording span wrapping spanContext under the span key
SetSpanContext(context, spanContext) == [context EXCEPT !.span = spanContext]

\* otel.trace.getSpan(context): the span stored in the context, or undefined
GetSpan(context) == context.span

\* Mutation: only a span of this process counts as active
HasLocalSpan(context) == GetSpan(context).present /\ ~GetSpan(context).isRemote

HasSpan(context) == GetSpan(context).present

\* The underlying manager's own active(): innermost entered context, else ROOT_CONTEXT
BaseActive(stack) == IF stack = << >> THEN ROOT_CONTEXT ELSE stack[Len(stack)]

\* Mutation: the wrapper answers the root context without looking at current
ActiveWrapperAlwaysRoot(current, rootContext) == rootContext

\* One replacement of contextManager.active: () => { current = originalActive();
\* return getSpan(current) ? current : rootContext }
ActiveWrapper(current, rootContext) ==
    IF HasSpan(current) THEN current ELSE rootContext

\* contextManager.active after n replacements, each wrapping the previous one
RECURSIVE ActiveAt(_, _, _)
ActiveAt(stack, wrappers, n) ==
    IF n = 0 THEN BaseActive(stack)
    ELSE ActiveWrapper(ActiveAt(stack, wrappers, n - 1), wrappers[n])

ManagerActive(stack, wrappers) == ActiveAt(stack, wrappers, Len(wrappers))

\* otel.context.active(): delegates to the registered manager
ContextActive == ManagerActive(scopes, activeWrappers)

----------------------------------------------------------------------------
(* Context manager shapes the runtime may expose *)

NoManager == [present |-> FALSE, hasActive |-> FALSE, hasWith |-> FALSE]
FullManager == [present |-> TRUE, hasActive |-> TRUE, hasWith |-> TRUE]
ManagerWithoutWith == [present |-> TRUE, hasActive |-> TRUE, hasWith |-> FALSE]

ManagerShapes ==
    { NoManager } \cup
    { [present |-> TRUE, hasActive |-> a, hasWith |-> w] : a, w \in BOOLEAN }

\* Mutation: the guard tests the manager, not its with member
HasManager(cm) == cm.present

\* if (contextManager?.with)
HasScopedExecution(cm) == cm.present /\ cm.hasWith

\* Mutation: the guard tests parentTraceId alone
HasTraceIdOnly(p) == TruthyStr(p.parentTraceId)

\* if (parentTraceId && parentSpanId)
HasRemoteParent(p) == TruthyStr(p.parentTraceId) /\ TruthyStr(p.parentSpanId)

\* contextManager.active.bind(contextManager) raises a TypeError when the
\* manager has no active member
BindActiveThrows(cm) == ~cm.hasActive

----------------------------------------------------------------------------
(* createSentryPlugin *)

\* The locals of one invocation, from the environment it sees
Invocation(tp, cm, current) ==
    LET p == ParseTraceparent(tp)
        remote == HasRemoteParent(p)
        patching == remote /\ HasScopedExecution(cm)
        threw == patching /\ BindActiveThrows(cm)
    IN  [traceparent |-> tp,
         manager |-> cm,
         parsed |-> p,
         parentContext |-> IF remote THEN ParentContext(p) ELSE NoSpan,
         rootContext |-> IF remote THEN SetSpanContext(current, ParentContext(p))
                         ELSE ROOT_CONTEXT,
         installed |-> patching /\ ~threw,
         threw |-> threw]

CreateSentryPlugin ==
    /\ status = "running"
    /\ Len(callLog) < MaxCalls
    /\ LET inv == Invocation(traceparent, contextManager, ContextActive)
       IN  /\ callLog' = Append(callLog, inv)
           /\ sentryInits' = sentryInits + 1
           /\ activeWrappers' = IF inv.installed
                                THEN Append(activeWrappers, inv.rootContext)
                                ELSE activeWrappers
           /\ status' = IF inv.threw THEN "crashed" ELSE "running"
           /\ spanStartListeners' = IF inv.threw THEN spanStartListeners
                                    ELSE spanStartListeners + 1
           /\ plugins' = IF inv.threw THEN plugins ELSE plugins + 1
    /\ UNCHANGED << traceparent, contextManager, scopes, hooksLoaded >>
    /\ UNCHANGED hookVars


\* The host (or the user's plugin file) changes process.env.TRACEPARENT
\* between two invocations of createSentryPlugin
HdrSampled == << "0", "-", "0", "-", "1", "-", "0", "1" >>
HdrUnsampled == << "0", "-", "1", "-", "0", "-", "0", "0" >>
HdrThreeSegments == << "0", "-", "0", "-", "1" >>
HdrEmptyTraceId == << "0", "-", "-", "1", "-", "0", "1" >>

Headers == { HdrSampled, HdrUnsampled, HdrThreeSegments, HdrEmptyTraceId }

EnvValues == { Undefined } \cup { Defined(h) : h \in Headers }

SetEnv ==
    /\ status = "running"
    /\ \E v \in EnvValues :
          /\ v # traceparent
          /\ traceparent' = v
    /\ UNCHANGED << contextManager, hooksLoaded >>
    /\ UNCHANGED ctxVars
    /\ UNCHANGED createVars
    /\ UNCHANGED hookVars

----------------------------------------------------------------------------
(* Span scopes: code of the process entering and leaving contexts through  *)
(* the manager's with(), left untouched by the patch                       *)

FreshTraceId == << "f" >>
LocalSpanId == << "e" >>

\* A manager that really runs scopes has both operations
RunsScopes(cm) == cm.present /\ cm.hasActive /\ cm.hasWith

\* tracer.startActiveSpan: the new span continues the trace of the span in
\* the active context, or starts a new trace when there is none
ChildSpan(parent) ==
    [present |-> TRUE,
     traceId |-> IF parent.present THEN parent.traceId ELSE FreshTraceId,
     spanId |-> LocalSpanId,
     traceFlags |-> IF parent.present THEN parent.traceFlags ELSE SAMPLED,
     isRemote |-> FALSE]

EnterSpan ==
    /\ status = "running"
    /\ RunsScopes(contextManager)
    /\ Len(scopes) < MaxDepth
    /\ scopes' = Append(scopes,
                   SetSpanContext(ContextActive, ChildSpan(GetSpan(ContextActive))))
    /\ UNCHANGED << traceparent, contextManager, activeWrappers, hooksLoaded >>
    /\ UNCHANGED createVars
    /\ UNCHANGED hookVars

\* context.with(ctx, fn) with a context that holds a value but no span:
\* built from ROOT_CONTEXT, or from the active context
EnterContext ==
    /\ status = "running"
    /\ RunsScopes(contextManager)
    /\ Len(scopes) < MaxDepth
    /\ \E base \in { ROOT_CONTEXT, ContextActive } :
          scopes' = Append(scopes, [base EXCEPT !.baggage = "k"])
    /\ UNCHANGED << traceparent, contextManager, activeWrappers, hooksLoaded >>
    /\ UNCHANGED createVars
    /\ UNCHANGED hookVars

ExitScope ==
    /\ status = "running"
    /\ scopes # << >>
    /\ scopes' = SubSeq(scopes, 1, Len(scopes) - 1)
    /\ UNCHANGED << traceparent, contextManager, activeWrappers, hooksLoaded >>
    /\ UNCHANGED createVars
    /\ UNCHANGED hookVars

----------------------------------------------------------------------------
(* Specification of the tracing context: process start, then any           *)
(* interleaving of createSentryPlugin calls, environment changes and span  *)
(* scopes                                                                  *)

InitCommon ==
    /\ scopes = << >>
    /\ activeWrappers = << >>
    /\ callLog = << >>
    /\ status = "running"
    /\ sentryInits = 0
    /\ spanStartListeners = 0
    /\ plugins = 0
    /\ hooksLoaded = FALSE
    /\ eventLog = << >>
    /\ sdkLog = << >>
    /\ pc = "ready"
    /\ elapsed = 0

Init ==
    /\ traceparent \in EnvValues
    /\ contextManager \in ManagerShapes
    /\ InitCommon

Next ==
    \/ CreateSentryPlugin
    \/ SetEnv
    \/ EnterSpan
    \/ EnterContext
    \/ ExitScope

Spec == Init /\ [][Next]_vars

\* Specification of the importer: every TRACEPARENT string up to MaxLen
\* characters, every manager shape, createSentryPlugin invoked on it
InitParse ==
    /\ traceparent \in { Undefined } \cup { Defined(s) : s \in Strings(MaxLen) }
    /\ contextManager \in ManagerShapes
    /\ InitCommon

NextParse == CreateSentryPlugin

SpecParse == InitParse /\ [][NextParse]_vars

----------------------------------------------------------------------------
(* The plugin and its hooks *)

\* Values a host may put in an error field
NoError == [kind |-> "undefined", text |-> ""]
NullError == [kind |-> "null", text |-> ""]
EmptyStringError == [kind |-> "string", text |-> ""]
StringError == [kind |-> "string", text |-> "boom"]
ObjectError == [kind |-> "object", text |-> "UnknownError"]
ExceptionError == [kind |-> "Error", text |-> "failed"]

Payloads == { NoError, NullError, EmptyStringError, StringError, ObjectError,
              ExceptionError }

\* JS truthiness: undefined, null and "" are falsy, objects are truthy
Truthy(v) ==
    /\ v.kind \notin { "undefined", "null" }
    /\ ~(v.kind = "string" /\ v.text = "")

\* JS String(v)
JsString(v) ==
    CASE v.kind = "string" -> v.text
      [] v.kind = "undefined" -> "undefined"
      [] v.kind = "null" -> "null"
      [] v.kind = "object" -> "[object Object]"
      [] OTHER -> v.text

\* error instanceof Error
IsError(v) == v.kind = "Error"

\* One call into the Sentry SDK
SdkCall(op, category, message, source, tool, data, wrapped, timeout) ==
    [op |-> op, category |-> category, message |-> message, source |-> source,
     tool |-> tool, data |-> data, wrapped |-> wrapped, timeout |-> timeout]

AddBreadcrumb(category, message, data) ==
    SdkCall("addBreadcrumb", category, message, "", "", data, FALSE, 0)

\* Sentry.captureException(error instanceof Error ? error : new Error(String(error)), {tags})
CaptureException(error, source, tool) ==
    SdkCall("captureException", "",
            IF IsError(error) THEN error.text ELSE JsString(error),
            source, tool, {}, ~IsError(error), 0)

Flush(timeout) == SdkCall("flush", "", "", "", "", {}, FALSE, timeout)

\* Host events
EventTypes == { "session.created", "session.error", "session.idle",
                "message.updated" }

HostEvent(hook, type, error, tool, keys) ==
    [hook |-> hook, type |-> type, error |-> error, tool |-> tool, keys |-> keys]

\* The host invokes a returned Plugin with its project record and keeps the hooks
LoadPlugin ==
    /\ status = "running"
    /\ plugins > 0
    /\ ~hooksLoaded
    /\ hooksLoaded' = TRUE
    /\ \E projectId \in { "", "p1" } :
          sdkLog' = sdkLog
              \o << SdkCall("setContext", "opencode", "", "", "", {projectId}, FALSE, 0) >>
              \o (IF projectId # ""
                  THEN << SdkCall("setTag", "project", projectId, "", "", {}, FALSE, 0) >>
                  ELSE << >>)
    /\ UNCHANGED << traceparent, contextManager, eventLog, pc, elapsed >>
    /\ UNCHANGED ctxVars
    /\ UNCHANGED createVars

\* Mutation: the flush requested before the breadcrumb is recorded
SessionIdleFlushFirst ==
    << Flush(FLUSH_TIMEOUT), AddBreadcrumb("session", "Session completed", {}) >>

\* case 'session.idle': the breadcrumb, then the flush request
SessionIdleCalls ==
    << AddBreadcrumb("session", "Session completed", {}), Flush(FLUSH_TIMEOUT) >>

\* case 'session.error'
SessionErrorCalls(error) ==
    IF Truthy(error) THEN << CaptureException(error, "session.error", "") >>
    ELSE << >>

\* Mutation: a default case that records a breadcrumb for any other event
EventHookCallsWithDefault(type, error) ==
    CASE type = "session.created" ->
             << AddBreadcrumb("session", "Session created", {"sessionId"}) >>
      [] type = "session.error" -> SessionErrorCalls(error)
      [] type = "session.idle" -> SessionIdleCalls
      [] OTHER -> << AddBreadcrumb("session", type, {}) >>

\* The switch of the event hook: the Sentry calls it makes for one event
EventHookCalls(type, error) ==
    CASE type = "session.created" ->
             << AddBreadcrumb("session", "Session created", {"sessionId"}) >>
      [] type = "session.error" -> SessionErrorCalls(error)
      [] type = "session.idle" -> SessionIdleCalls
      [] OTHER -> << >>

CanDeliver ==
    /\ status = "running"
    /\ hooksLoaded
    /\ pc = "ready"
    /\ Len(eventLog) < MaxEvents

\* hooks.event({ event }): runs to its end, or to the await of Sentry.flush
EventHook ==
    /\ CanDeliver
    /\ \E type \in EventTypes :
       \E error \in (IF type = "session.error" THEN Payloads ELSE { NoError }) :
          /\ eventLog' = Append(eventLog, HostEvent("event", type, error, "", {}))
          /\ sdkLog' = sdkLog \o EventHookCalls(type, error)
          /\ pc' = IF type = "session.idle" THEN "awaiting" ELSE "ready"
          /\ elapsed' = IF type = "session.idle" THEN 0 ELSE elapsed
    /\ UNCHANGED << traceparent, contextManager, hooksLoaded >>
    /\ UNCHANGED ctxVars
    /\ UNCHANGED createVars

\* hooks['tool.execute.before'](input, output): argKeys = Object.keys(output.args || {})
ToolExecuteBefore ==
    /\ CanDeliver
    /\ \E keys \in { {}, {"path"} } :
          /\ eventLog' = Append(eventLog,
                 HostEvent("tool.execute.before", "", NoError, "bash", keys))
          /\ sdkLog' = Append(sdkLog, AddBreadcrumb("tool", "Tool: bash", {"tool"} \cup keys))
    /\ UNCHANGED << traceparent, contextManager, hooksLoaded, pc, elapsed >>
    /\ UNCHANGED ctxVars
    /\ UNCHANGED createVars

\* Mutation: the capture made without testing the error value
ToolAfterCallsUnchecked(error, tool) == << CaptureException(error, "tool.execute", tool) >>

\* The Sentry calls of hooks['tool.execute.after'] for output.metadata?.error
ToolAfterCalls(error, tool) ==
    IF Truthy(error) THEN << CaptureException(error, "tool.execute", tool) >>
    ELSE << >>

ToolExecuteAfter ==
    /\ CanDeliver
    /\ \E error \in Payloads :
          /\ eventLog' = Append(eventLog,
                 HostEvent("tool.execute.after", "", error, "bash", {}))
          /\ sdkLog' = sdkLog \o ToolAfterCalls(error, "bash")
    /\ UNCHANGED << traceparent, contextManager, hooksLoaded, pc, elapsed >>
    /\ UNCHANGED ctxVars
    /\ UNCHANGED createVars

\* Sentry.flush(timeout): resolves when the transport has drained, or when
\* its timer of `timeout` ms fires, whichever comes first
TickMs == FLUSH_TIMEOUT \div 2

PendingTimeout == sdkLog[Len(sdkLog)].timeout

Tick ==
    /\ pc = "awaiting"
    /\ elapsed < PendingTimeout
    /\ elapsed' = IF elapsed + TickMs > PendingTimeout THEN PendingTimeout
                  ELSE elapsed + TickMs
    /\ UNCHANGED << traceparent, contextManager, hooksLoaded, eventLog, sdkLog, pc >>
    /\ UNCHANGED ctxVars
    /\ UNCHANGED createVars

\* The transport drained in time: the awaited promise resolves, the hook returns
FlushDrained ==
    /\ pc = "awaiting"
    /\ elapsed < PendingTimeout
    /\ pc' = "ready"
    /\ UNCHANGED << traceparent, contextManager, hooksLoaded, eventLog, sdkLog, elapsed >>
    /\ UNCHANGED ctxVars
    /\ UNCHANGED createVars

\* The timer fired: the awaited promise resolves, the hook returns
FlushTimedOut ==
    /\ pc = "awaiting"
    /\ elapsed >= PendingTimeout
    /\ pc' = "ready"
    /\ UNCHANGED << traceparent, contextManager, hooksLoaded, eventLog, sdkLog, elapsed >>
    /\ UNCHANGED ctxVars
    /\ UNCHANGED createVars

\* Specification of the hooks: process start with TRACEPARENT unset or
\* valid and a manager with or without scoped execution, createSentryPlugin
\* calls, then host events one at a time
InitHooks ==
    /\ traceparent \in { Undefined, Defined(HdrSampled) }
    /\ contextManager \in { FullManager, ManagerWithoutWith }
    /\ InitCommon

NextHooks ==
    \/ CreateSentryPlugin
    \/ LoadPlugin
    \/ EventHook
    \/ ToolExecuteBefore
    \/ ToolExecuteAfter
    \/ Tick
    \/ FlushDrained
    \/ FlushTimedOut

SpecHooks == InitHooks /\ [][NextHooks]_vars

\* The flush timer is a timer of the runtime: time passes and it fires
SpecHooksFair ==
    /\ SpecHooks
    /\ WF_vars(Tick)
    /\ WF_vars(FlushTimedOut)

----------------------------------------------------------------------------
(* Reading a TRACEPARENT string without the importer: hyphen positions *)

HyphenPositions(s) == { i \in 1..Len(s) : s[i] = Hyphen }

SegmentsIn(s) == Cardinality(HyphenPositions(s)) + 1

\* The k-th hyphen of s (k = 0: position 0, k past the last: Len(s) + 1)
HyphenAt(s, k) ==
    IF k = 0 THEN 0
    ELSE IF k > Cardinality(HyphenPositions(s)) THEN Len(s) + 1
    ELSE CHOOSE i \in HyphenPositions(s) :
             Cardinality({ j \in HyphenPositions(s) : j < i }) = k - 1

\* The k-th segment of s, as the characters between two hyphens
SegmentOf(s, k) == SubSeq(s, HyphenAt(s, k - 1) + 1, HyphenAt(s, k) - 1)

FourSegments(tp) == tp.def /\ SegmentsIn(tp.val) = 4

Installs == { i \in DOMAIN callLog : callLog[i].installed }

FirstInstall == CHOOSE i \in Installs : \A j \in Installs : i <= j

----------------------------------------------------------------------------
(* Claims *)

\* C1: once the patch is installed, active() returns the underlying manager's
\* current context unchanged when it holds a span, and otherwise the root
\* context carrying the remote parent parsed from TRACEPARENT, whatever span
\* scopes were entered and left.
ActiveContinuity ==
    activeWrappers # << >> =>
        LET current == BaseActive(scopes)
            first == callLog[FirstInstall]
        IN  IF current.span.present
            THEN ContextActive = current
            ELSE /\ ContextActive = first.rootContext
                 /\ ContextActive.span.present
                 /\ ContextActive.span.traceId = SegmentOf(first.traceparent.val, 2)
                 /\ ContextActive.span.spanId = SegmentOf(first.traceparent.val, 3)

\* The patch is installed, a local span scope is open and inside it a scope
\* without a span: active() falls back to the root context
ActiveContinuityWitness ==
    /\ activeWrappers # << >>
    /\ Len(scopes) = 2
    /\ scopes[1].span.present /\ ~scopes[1].span.isRemote
    /\ ~scopes[2].span.present
    /\ ContextActive = activeWrappers[1]
    /\ ContextActive # scopes[2]

\* What active() answers when no scope is entered
Fallback == ManagerActive(<< >>, activeWrappers)

\* C2: the remote parent that active() falls back to is the one of the first
\* successful installation; no later createSentryPlugin call, also under a
\* different TRACEPARENT, replaces it.
RemoteParentFixed == [][activeWrappers # << >> => Fallback' = Fallback]_vars

\* Two installations under different TRACEPARENT values, and the query
\* without a span still answers the first remote parent
RemoteParentFixedWitness ==
    /\ Len(activeWrappers) = 2
    /\ activeWrappers[1].span.traceId # activeWrappers[2].span.traceId
    /\ scopes = << >>
    /\ ContextActive = activeWrappers[1]

\* A TRACEPARENT with 4 segments and non-empty trace-id and span-id
Importable(tp) ==
    /\ FourSegments(tp)
    /\ SegmentOf(tp.val, 2) # << >>
    /\ SegmentOf(tp.val, 3) # << >>

\* An invocation that saw such a TRACEPARENT and a manager with active and with
Installable(call) ==
    /\ Importable(call.traceparent)
    /\ call.manager.present /\ call.manager.hasActive /\ call.manager.hasWith

\* C3 as stated: with a valid TRACEPARENT and a context manager, active is
\* replaced exactly once however often createSentryPlugin is invoked, and no
\* handler runs before that.
InstalledExactlyOnce ==
    /\ (\E i \in DOMAIN callLog : Installable(callLog[i])) => Len(activeWrappers) = 1
    /\ (eventLog # << >> => callLog # << >>)

\* C3 amended: active is replaced once per createSentryPlugin invocation
\* that sees an importable TRACEPARENT and a manager with active and with;
\* hooks exist and handlers run only after the first invocation returned,
\* which has installed the patch when it saw such an environment.
InstalledPerInvocation ==
    /\ Len(activeWrappers) = Cardinality({ i \in DOMAIN callLog : Installable(callLog[i]) })
    /\ (hooksLoaded \/ eventLog # << >>) =>
          /\ callLog # << >>
          /\ ~callLog[1].threw
          /\ (Installable(callLog[1]) => Len(activeWrappers) >= 1)

\* createSentryPlugin ran twice under a valid TRACEPARENT and a handler ran
InstalledPerInvocationWitness ==
    /\ Len(callLog) = 2
    /\ Len(activeWrappers) = 2
    /\ eventLog # << >>

\* A TRACEPARENT that is absent or has another number of segments than 4
Malformed(tp) == ~tp.def \/ SegmentsIn(tp.val) # 4

\* C4: a TRACEPARENT that is absent or does not split into exactly 4
\* segments yields no remote parent at all (no id, no parent context, no
\* replacement of active), while Sentry.init, the spanStart listener and
\* the plugin are still set up; no parent context is ever partly populated.
NoPartialRemoteParent ==
    /\ \A i \in DOMAIN callLog :
          LET call == callLog[i]
          IN  /\ Malformed(call.traceparent) =>
                    /\ ~call.parsed.parentTraceId.def
                    /\ ~call.parsed.parentSpanId.def
                    /\ call.parentContext = NoSpan
                    /\ ~call.installed
                    /\ ~call.threw
              /\ call.parsed.parentTraceId.def = call.parsed.parentSpanId.def
              /\ call.parentContext.present =>
                    /\ call.parentContext.traceId # << >>
                    /\ call.parentContext.spanId # << >>
    /\ Malformed(traceparent) =>
          /\ activeWrappers = << >>
          /\ status = "running"
          /\ sentryInits = Len(callLog)
          /\ spanStartListeners = Len(callLog)
          /\ plugins = Len(callLog)

\* A 5-segment TRACEPARENT went through createSentryPlugin
NoPartialRemoteParentWitness ==
    /\ callLog # << >>
    /\ traceparent.def
    /\ SegmentsIn(traceparent.val) = 5
    /\ SegmentOf(traceparent.val, 2) # << >>
    /\ SegmentOf(traceparent.val, 3) # << >>
    /\ contextManager = FullManager
    /\ plugins = 1

\* C5 as stated: the patch is installed iff TRACEPARENT has exactly 4
\* segments (empty segments included) and the manager has active and with.
InstalledIffFourSegments ==
    \A i \in DOMAIN callLog :
        callLog[i].installed <=>
            /\ FourSegments(callLog[i].traceparent)
            /\ callLog[i].manager.present
            /\ callLog[i].manager.hasActive
            /\ callLog[i].manager.hasWith

\* C5 amended: the patch is installed iff TRACEPARENT has exactly 4 segments
\* of which the trace-id and the span-id are not empty (version and flags
\* may be anything, also empty) and the manager has active and with.
InstalledIffImportable ==
    \A i \in DOMAIN callLog : callLog[i].installed <=> Installable(callLog[i])

\* Installed from a header whose version and flags segments are empty
InstalledIffImportableWitness ==
    /\ callLog # << >>
    /\ callLog[1].installed
    /\ SegmentOf(callLog[1].traceparent.val, 1) = << >>
    /\ SegmentOf(callLog[1].traceparent.val, 4) = << >>

\* C6: for a 4-segment TRACEPARENT sampled is true iff the 4th segment is
\* exactly "01"; the parent context has the SAMPLED flag iff sampled, no
\* flag otherwise, and is always remote.
SampledIffFlags01 ==
    \A i \in DOMAIN callLog :
        LET call == callLog[i]
        IN  FourSegments(call.traceparent) =>
              /\ call.parsed.sampled <=> (SegmentOf(call.traceparent.val, 4) = << "0", "1" >>)
              /\ call.parentContext.present =>
                    /\ call.parentContext.traceFlags = (IF call.parsed.sampled THEN 1 ELSE 0)
                    /\ call.parentContext.isRemote
                    /\ call.rootContext.span = call.parentContext

\* Installed from a header whose flags segment is "1": not sampled
SampledIffFlags01Witness ==
    /\ callLog # << >>
    /\ callLog[1].installed
    /\ SegmentOf(callLog[1].traceparent.val, 4) = << "1" >>
    /\ activeWrappers[1].span.traceFlags = 0
    /\ activeWrappers[1].span.isRemote

\* Reading the two logs
IsCapture(c) == c.op = "captureException"
IsFlush(c) == c.op = "flush"
IsBreadcrumb(c) == c.op = "addBreadcrumb"
IsCompletedBreadcrumb(c) ==
    c.op = "addBreadcrumb" /\ c.category = "session" /\ c.message = "Session completed"
IsIdle(e) == e.hook = "event" /\ e.type = "session.idle"
IsErrorEvent(e) ==
    \/ e.hook = "event" /\ e.type = "session.error"
    \/ e.hook = "tool.execute.after"

\* One flush per session.idle event, bounded at 2000 ms, right after the
\* "Session completed" breadcrumb; the wait never outlasts 2000 ms
IdleFlushOrder ==
    /\ Len(SelectSeq(sdkLog, IsFlush)) = Len(SelectSeq(eventLog, IsIdle))
    /\ Len(SelectSeq(sdkLog, IsCompletedBreadcrumb)) = Len(SelectSeq(eventLog, IsIdle))
    /\ \A i \in DOMAIN sdkLog :
          IsFlush(sdkLog[i]) =>
              /\ sdkLog[i].timeout = 2000
              /\ i > 1
              /\ IsCompletedBreadcrumb(sdkLog[i - 1])
    /\ pc = "awaiting" =>
          /\ IsIdle(eventLog[Len(eventLog)])
          /\ IsFlush(sdkLog[Len(sdkLog)])
          /\ elapsed <= 2000

Present(v) == v.kind \notin { "undefined", "null" }

IsPresentErrorEvent(e) == IsErrorEvent(e) /\ Present(e.error)

\* C8 as stated: the exception captures are, one for one, the session.error
\* and tool.execute.after events whose error field is present.
CapturePerPresentError ==
    Len(SelectSeq(sdkLog, IsCapture)) = Len(SelectSeq(eventLog, IsPresentErrorEvent))

\* An error field that is there and is not the empty string
IsTruthyErrorEvent(e) ==
    /\ IsErrorEvent(e)
    /\ Present(e.error)
    /\ ~(e.error.kind = "string" /\ e.error.text = "")

\* The capture the claim describes for an error event
ExpectedCapture(e) ==
    [op |-> "captureException", category |-> "",
     message |-> IF e.error.kind = "object" THEN "[object Object]" ELSE e.error.text,
     source |-> IF e.hook = "event" THEN "session.error" ELSE "tool.execute",
     tool |-> IF e.hook = "event" THEN "" ELSE e.tool,
     data |-> {}, wrapped |-> e.error.kind # "Error", timeout |-> 0]

\* C8 amended: the exception captures are, one for one and in order, the
\* session.error and tool.execute.after events whose error value is truthy
\* (an empty string, like null and undefined, causes none); an Error is
\* captured as it is, any other value wrapped with its String() as message;
\* the tags are source=session.error, or source=tool.execute and the tool.
CapturePerTruthyError ==
    LET captures == SelectSeq(sdkLog, IsCapture)
        errors == SelectSeq(eventLog, IsTruthyErrorEvent)
    IN  /\ Len(captures) = Len(errors)
        /\ \A i \in DOMAIN captures : captures[i] = ExpectedCapture(errors[i])

\* A tool error given as an empty string and one given as "boom": one capture
CapturePerTruthyErrorWitness ==
    /\ Len(eventLog) = 2
    /\ eventLog[1].hook = "tool.execute.after" /\ eventLog[1].error = EmptyStringError
    /\ eventLog[2].hook = "tool.execute.after" /\ eventLog[2].error = StringError
    /\ Len(SelectSeq(sdkLog, IsCapture)) = 1
    /\ sdkLog[Len(sdkLog)].message = "boom"

\* The event kinds the plugin acts on
ClosedSet == { "session.created", "session.error", "session.idle",
               "tool.execute.before", "tool.execute.after" }

\* C10: an event whose kind is outside the closed set makes the event
\* handler call nothing: no breadcrumb, no capture, no flush, and the
\* telemetry state stays as it was.
UnknownEventIgnored ==
    [][(/\ Len(eventLog') = Len(eventLog) + 1
        /\ eventLog'[Len(eventLog')].hook = "event"
        /\ eventLog'[Len(eventLog')].type \notin ClosedSet)
       => /\ sdkLog' = sdkLog
          /\ pc' = pc
          /\ hooksLoaded' = hooksLoaded]_vars

\* A session.created breadcrumb, then an unknown event that left it alone
UnknownEventIgnoredWitness ==
    /\ Len(eventLog) = 2
    /\ eventLog[1].type = "session.created"
    /\ eventLog[2].type = "message.updated"
    /\ Len(SelectSeq(sdkLog, IsBreadcrumb)) = 1
    /\ pc = "ready"

\* C9: createSentryPlugin never raises: without a context manager, or with
\* one that lacks with, the replacement of active is skipped and the plugin
\* returned; with every shape of manager the call completes.
InstallationNeverThrows ==
    /\ status = "running"
    /\ \A i \in DOMAIN callLog :
          /\ ~callLog[i].threw
          /\ ~HasScopedExecution(callLog[i].manager) => ~callLog[i].installed
    /\ plugins = Len(callLog)

============================================================================
